---- MODULE Spec2Model ----
(***************************************************************************)
(* Model of packages/plugin-sdk/src/index.ts: the graphql-codegen plugin   *)
(* that prints the typed Linear sdk (validate + plugin), together with the *)
(* chain resolver (getSdkDefinitions) that plugin calls.                   *)
(***************************************************************************)
EXTENDS Integers, Sequences, FiniteSets, TLC

\* ------------------------------------------------------------------ bounds
MaxDocs == 3
MaxSuffix == 2

\* ------------------------------------------------------- javascript values
\* A value of config.documentFile as the host may pass it (the raw config is
\* untyped at runtime): the javascript type tag and a printable value.
JsUndefined == [t |-> "undefined", v |-> "undefined"]

JsValues ==
  { JsUndefined,
    [t |-> "null", v |-> "null"],
    [t |-> "string", v |-> ""],
    [t |-> "string", v |-> "./_generated_documents"],
    [t |-> "number", v |-> "0"],
    [t |-> "number", v |-> "1"],
    [t |-> "boolean", v |-> "true"],
    [t |-> "object", v |-> "{}"] }

\* !x of javascript
Falsy(x) ==
  \/ x.t \in {"undefined", "null"}
  \/ x.t = "string" /\ x.v = ""
  \/ x.t = "number" /\ x.v \in {"0", "NaN"}
  \/ x.t = "boolean" /\ x.v = "false"

\* typeof x of javascript (typeof null is "object")
TypeOf(x) == IF x.t = "null" THEN "object" ELSE x.t

\* ------------------------------------------------------------ path.extname
\* Paths are sequences of characters.  extname is node's posix path.extname:
\* the part of the last path segment (trailing slashes ignored) from its last
\* "." on; empty when there is no ".", when the only "." starts the segment,
\* or when the segment is "..".
MaxOf(S) == CHOOSE m \in S : \A k \in S : k <= m

EndIdx(p) == MaxOf({i \in 1..Len(p) : p[i] # "/"} \cup {0})

StartPart(p) == MaxOf({i \in 1..EndIdx(p) : p[i] = "/"} \cup {0}) + 1

StartDot(p) == MaxOf({i \in StartPart(p)..EndIdx(p) : p[i] = "."} \cup {0})

extname(p) ==
  LET e == EndIdx(p)
      sp == StartPart(p)
      sd == StartDot(p)
  IN IF \/ e = 0
        \/ sd = 0
        \/ sd = sp
        \/ (sd = e /\ sd = sp + 1 /\ p[sp] = ".")
     THEN << >>
     ELSE SubSeq(p, sd, e)

DotTs == <<".", "t", "s">>

OutputFiles ==
  { <<"a", ".", "t", "s">>,
    <<"s", "/", "a", ".", "t", "s">>,
    <<"a", ".", "d", ".", "t", "s">>,
    <<"a", ".", "t", "s", "/">>,
    <<".", "t", "s">>,
    <<"a", ".", "j", "s">>,
    <<"a", ".", "t", "s", "x">>,
    <<"a", ".", "t", "s", "/", "b">>,
    <<"t", "s">>,
    <<".", ".">>,
    <<"a", ".">>,
    << >> }

\* ---------------------------------------------------------------- validate
ExtensionErrorAlt(outFile) == extname(outFile) = << >>

\* index.ts 112-114: the output file extension check
ExtensionError(outFile) == extname(outFile) # DotTs

DocumentFileErrorAlt(cfg) == TypeOf(cfg.documentFile) # "string"

\* index.ts 116-118: the documentFile check
DocumentFileError(cfg) ==
  Falsy(cfg.documentFile) \/ TypeOf(cfg.documentFile) # "string"

\* index.ts 100-119: the error validate throws, "none" when it returns
validate(cfg, outFile) ==
  IF ExtensionError(outFile) THEN "Error: output file extension"
  ELSE IF DocumentFileError(cfg) THEN "Error: documentFile"
  ELSE "none"

\* ------------------------------------------------- schema models, documents
\* SdkModel: a name and the selected fields (name, type) of the result shape.
LinearModels ==
  << [name |-> "Issue",
      fields |-> {[name |-> "id", type |-> "ID"],
                  [name |-> "title", type |-> "String"]}],
     [name |-> "Comment",
      fields |-> {[name |-> "id", type |-> "ID"],
                  [name |-> "issueId", type |-> "ID"],
                  [name |-> "body", type |-> "String"]}] >>

\* Declared variables of an operation document: name, type, required flag.
VarSets ==
  { {},
    {[name |-> "id", type |-> "ID", required |-> TRUE]},
    {[name |-> "id", type |-> "String", required |-> TRUE]},
    {[name |-> "id", type |-> "ID", required |-> TRUE],
     [name |-> "issueId", type |-> "ID", required |-> TRUE]},
    {[name |-> "issueId", type |-> "ID", required |-> TRUE],
     [name |-> "id", type |-> "String", required |-> FALSE]} }

OperationNames == {"list", "list2"}

ResultNames == {"Issue", "Comment", "Label"}

\* OperationDocument: call name, declared variables, name of the result model
OperationDocuments ==
  [name : OperationNames, vars : VarSets, result : ResultNames]

DocumentLists ==
  UNION {[1..n -> OperationDocuments] : n \in 1..MaxDocs}

\* ---------------------------------------------------------- chain resolver
MinOf(S) == CHOOSE m \in S : \A k \in S : m <= k

KnownModel(models, name) == \E k \in 1..Len(models) : models[k].name = name

FieldsOf(models, name) ==
  UNION {models[k].fields : k \in {k \in 1..Len(models) : models[k].name = name}}

MatchesAlt(v, models, name) ==
  \E f \in FieldsOf(models, name) : f.name = v.name

\* a variable is inherited from a model when the model selects a field of
\* the same name and the same type
Matches(v, models, name) ==
  \E f \in FieldsOf(models, name) : f.name = v.name /\ f.type = v.type

MatchingVars(doc, models, name) == {v \in doc.vars : Matches(v, models, name)}

\* Step 1: doc is a candidate child of the model called name
IsCandidate(doc, models, name) ==
  /\ \A v \in doc.vars : v.required => Matches(v, models, name)
  /\ MatchingVars(doc, models, name) # {}

ParentOfAlt(docs, models, i) ==
  LET cands == {j \in (1..Len(docs)) \ {i} :
                  IsCandidate(docs[i], models, docs[j].result)}
  IN IF cands = {} THEN 0 ELSE MinOf(cands)

\* Step 2: the parent of document i is the earlier-declared operation whose
\* result model matches most of its variables, the first such on a tie;
\* 0 (the root grouping) when there is none.
ParentOf(docs, models, i) ==
  LET cands == {j \in 1..(i - 1) :
                  IsCandidate(docs[i], models, docs[j].result)}
      size(j) == Cardinality(MatchingVars(docs[i], models, docs[j].result))
      best == {j \in cands : \A k \in cands : size(k) <= size(j)}
  IN IF cands = {} THEN 0 ELSE MinOf(best)

AssembleTree(docs, models) ==
  [i \in 1..Len(docs) |-> ParentOf(docs, models, i)]

NoName == ""

GeneratedNameAlt(base, used) ==
  IF base \notin used THEN base
  ELSE IF MaxSuffix < 2 THEN NoName ELSE base \o ToString(2)

\* Step 3: the call name of a child given the names its earlier siblings
\* took: the base name, else the base name with the first free counter.
GeneratedName(base, used) ==
  IF base \notin used THEN base
  ELSE LET free == {k \in 2..MaxSuffix : (base \o ToString(k)) \notin used}
       IN IF free = {} THEN NoName ELSE base \o ToString(MinOf(free))

RECURSIVE ResolveNamesUpTo(_, _, _)
ResolveNamesUpTo(docs, parents, i) ==
  IF i = 0 THEN [error |-> "none", names |-> << >>]
  ELSE LET prev == ResolveNamesUpTo(docs, parents, i - 1)
       IN IF prev.error # "none" THEN prev
          ELSE LET sibs == {j \in 1..(i - 1) : parents[j] = parents[i]}
                   used == {prev.names[j] : j \in sibs}
                   n == GeneratedName(docs[i].name, used)
               IN IF n = NoName
                  THEN [error |-> "ChainNameConflict", names |-> prev.names]
                  ELSE [error |-> "none", names |-> Append(prev.names, n)]

ResolveNames(docs, parents) == ResolveNamesUpTo(docs, parents, Len(docs))

\* Step 4: walk the ancestor chain of node, dropping the inherited variables
RECURSIVE Elide(_, _, _, _, _, _)
Elide(docs, models, parents, vars, node, fuel) ==
  IF parents[node] = 0 \/ fuel = 0 THEN vars
  ELSE Elide(docs, models, parents,
             {v \in vars : ~Matches(v, models, docs[parents[node]].result)},
             parents[node], fuel - 1)

ElideArguments(docs, models, parents) ==
  [i \in 1..Len(docs) |->
     Elide(docs, models, parents, docs[i].vars, i, Len(docs))]

\* Step 5: every result model must be a known SdkModel
ValidateReferences(docs, models) ==
  IF \A i \in 1..Len(docs) : KnownModel(models, docs[i].result)
  THEN "none" ELSE "UnresolvedModelReference"

RECURSIVE ChildrenUpTo(_, _, _)
ChildrenUpTo(parents, p, i) ==
  IF i = 0 THEN << >>
  ELSE IF parents[i] = p THEN Append(ChildrenUpTo(parents, p, i - 1), i)
       ELSE ChildrenUpTo(parents, p, i - 1)

\* the children of every node (0 is the root grouping), in document order
ChildrenOf(parents) ==
  [p \in 0..Len(parents) |-> ChildrenUpTo(parents, p, Len(parents))]

NoDefinitions ==
  [error |-> "none", parents |-> << >>, names |-> << >>, args |-> << >>,
   children |-> << >>]

getSdkDefinitions(context, documents, models) ==
  LET parents == AssembleTree(documents, models)
      nm == ResolveNames(documents, parents)
      ref == ValidateReferences(documents, models)
  IN IF nm.error # "none" THEN [NoDefinitions EXCEPT !.error = nm.error]
     ELSE IF ref # "none" THEN [NoDefinitions EXCEPT !.error = ref]
     ELSE [error |-> "none", parents |-> parents, names |-> nm.names,
           args |-> ElideArguments(documents, models, parents),
           children |-> ChildrenOf(parents)]

\* -------------------------------------------------------- plugin artefacts
DocumentModes == {"string", "documentNode", "undefined"}

Configs == [documentFile : JsValues, documentMode : DocumentModes]

Schemas == {"linear", "empty"}

\* the document lists the host passes to plugin
PluginDocuments ==
  { << >>,
    << [name |-> "list", result |-> "Issue",
        vars |-> {[name |-> "id", type |-> "ID", required |-> TRUE]}],
       [name |-> "list", result |-> "Comment",
        vars |-> {[name |-> "id", type |-> "ID", required |-> TRUE]}] >>,
    << [name |-> "list", result |-> "Issue", vars |-> {}],
       [name |-> "list2", result |-> "Issue", vars |-> {}],
       [name |-> "list", result |-> "Issue", vars |-> {}] >>,
    << [name |-> "list", result |-> "Label", vars |-> {}] >> }

NoContext == [schema |-> "none", scalars |-> "none", fragments |-> << >>]

VisitorFragments == {<< >>, <<"IssueFragment">>}

\* the context the ContextVisitor holds after visiting the schema ast
VisitorContext(schema, fragments) ==
  [schema |-> schema, scalars |-> "scalars", fragments |-> fragments]

BuildContextAlt(vc) == vc

\* index.ts 30-33: the visitor's context with an empty fragment list
BuildContext(vc) == [vc EXCEPT !.fragments = << >>]

\* the models the ModelVisitor returns for the schema ast
VisitModels(ctx, ast) == IF ast = "linear" THEN LinearModels ELSE << >>

NoSdkContext ==
  [schema |-> "none", scalars |-> "none", fragments |-> << >>,
   models |-> << >>, sdkDefinitions |-> NoDefinitions]

\* index.ts 45-49: the context with the models and the definitions added
BuildSdkContext(ctx, mods, defs) ==
  [schema |-> ctx.schema, scalars |-> ctx.scalars,
   fragments |-> ctx.fragments, models |-> mods, sdkDefinitions |-> defs]

printSdkModels(sctx) == IF sctx.models = << >> THEN "" ELSE "printedModels"

printSdkClasses(sctx) ==
  IF sctx.sdkDefinitions.parents = << >> THEN "" ELSE "printedOperations"

printRequesterType(cfg) ==
  << IF cfg.documentMode = "string"
     THEN "export type LinearRequester = (doc: string, vars) => Promise"
     ELSE "export type LinearRequester = (doc: DocumentNode, vars) => Promise" >>

Undefined == "<undefined>"

nonNullable(x) == x # Undefined

NonEmpty(x) == x # ""

\* filterJoin(parts, "\n"): the non-empty parts, in order, one per line
filterJoin(parts) == SelectSeq(parts, NonEmpty)

EslintDisable == "/* eslint-disable @typescript-eslint/no-unused-vars */"

ImportDocumentNode == "import { DocumentNode } from 'graphql'"

ImportResultOf == "import { ResultOf } from '@graphql-typed-document-node/core'"

ImportDocuments(cfg) == "import * as D from '" \o cfg.documentFile.v \o "'"

ExportDocuments(cfg) == "export * from '" \o cfg.documentFile.v \o "'\n"

NeedsDocumentNodeAlt(cfg) == cfg.documentMode = "string"

\* index.ts 73: config.documentMode !== DocumentMode.string
NeedsDocumentNode(cfg) == cfg.documentMode # "string"

NoOutput == [returned |-> FALSE, prepend |-> << >>, content |-> << >>]

\* index.ts 67-90: the object plugin returns
PluginOutput(cfg, pModels, pOperations) ==
  [returned |-> TRUE,
   prepend |->
     SelectSeq(<< EslintDisable,
                  IF NeedsDocumentNode(cfg) THEN ImportDocumentNode
                  ELSE Undefined,
                  ImportResultOf >>, nonNullable),
   content |->
     filterJoin(<< ImportDocuments(cfg), ExportDocuments(cfg) >>
                \o printRequesterType(cfg)
                \o << pModels, pOperations >>)]

\* ------------------------------------------------------------------- state
VARIABLES outputFile, config, schema, documents,
          pc, started, completed, received, thrown, error,
          ast, visitorContext, context, models, sdkDefinitions, sdkContext,
          passed, printedModels, printedOperations, output,
          rpc, parents, names, args, children, rerror

inputVars == <<outputFile, config, schema, documents>>

runVars == <<pc, started, completed, received, thrown, error>>

dataVars == <<ast, visitorContext, context, models, sdkDefinitions,
              sdkContext, passed, printedModels, printedOperations, output>>

resolverVars == <<rpc, parents, names, args, children, rerror>>

vars == <<inputVars, runVars, dataVars, resolverVars>>

Stages == <<"parse", "context", "models", "definitions", "printModels",
            "printClasses", "assemble">>

StageSet == {Stages[i] : i \in 1..Len(Stages)}

StageIndex(s) == CHOOSE i \in 1..Len(Stages) : Stages[i] = s

NextStageAlt(s) ==
  IF s = "definitions" THEN "models"
  ELSE IF StageIndex(s) = Len(Stages) THEN "done"
  ELSE Stages[StageIndex(s) + 1]

\* index.ts 24-90: the statement that follows stage s inside the try block
NextStage(s) ==
  IF StageIndex(s) = Len(Stages) THEN "done" ELSE Stages[StageIndex(s) + 1]

\* the host calls plugin only after validate returned without an error
AfterValidate(err) == IF err = "none" THEN "parse" ELSE "rejected"

NoPassed == [s \in {"models", "definitions"} |-> NoContext]

InitData ==
  /\ ast = "none"
  /\ visitorContext = NoContext
  /\ context = NoContext
  /\ models = << >>
  /\ sdkDefinitions = NoDefinitions
  /\ sdkContext = NoSdkContext
  /\ passed = NoPassed
  /\ printedModels = ""
  /\ printedOperations = ""
  /\ output = NoOutput

InitResolverIdle ==
  /\ rpc = "idle"
  /\ parents = << >>
  /\ names = << >>
  /\ args = << >>
  /\ children = << >>
  /\ rerror = "none"

Init ==
  /\ outputFile \in OutputFiles
  /\ config \in Configs
  /\ schema \in Schemas
  /\ documents \in PluginDocuments
  /\ pc = "validate"
  /\ started = << >>
  /\ completed = {}
  /\ received = [s \in StageSet |-> {}]
  /\ thrown = "none"
  /\ error = "none"
  /\ InitData
  /\ InitResolverIdle

\* index.ts 100-119, called by the host before plugin
Validate ==
  /\ pc = "validate"
  /\ error' = validate(config, outputFile)
  /\ pc' = AfterValidate(validate(config, outputFile))
  /\ UNCHANGED <<inputVars, started, completed, received, thrown, dataVars,
                 resolverVars>>

\* a stage starts: it is logged and receives the named artefacts
Start(s, artefacts) ==
  /\ pc = s
  /\ started' = Append(started, s)
  /\ received' = [received EXCEPT ![s] = artefacts]

\* a stage ends: by an exception caught at index.ts 91, or normally
Throw(e) ==
  /\ pc' = "catch"
  /\ thrown' = e
  /\ UNCHANGED <<completed, error>>

Complete(s) ==
  /\ pc' = NextStage(s)
  /\ completed' = completed \cup {s}
  /\ UNCHANGED <<thrown, error>>

\* index.ts 24
Parse ==
  /\ Start("parse", {"schema"})
  /\ \/ /\ Throw("GraphQLError")
        /\ UNCHANGED dataVars
     \/ /\ Complete("parse")
        /\ ast' = schema
        /\ UNCHANGED <<visitorContext, context, models, sdkDefinitions,
                       sdkContext, passed, printedModels, printedOperations,
                       output>>
  /\ UNCHANGED <<inputVars, resolverVars>>

\* index.ts 27-33
GatherContext ==
  /\ Start("context", {"schema", "config", "ast"})
  /\ \/ /\ Throw("SchemaError")
        /\ UNCHANGED dataVars
     \/ /\ Complete("context")
        /\ \E fr \in VisitorFragments :
             /\ visitorContext' = VisitorContext(schema, fr)
             /\ context' = BuildContext(VisitorContext(schema, fr))
        /\ UNCHANGED <<ast, models, sdkDefinitions, sdkContext, passed,
                       printedModels, printedOperations, output>>
  /\ UNCHANGED <<inputVars, resolverVars>>

\* index.ts 36-39
GenerateModels ==
  /\ Start("models", {"context", "ast"})
  /\ passed' = [passed EXCEPT !["models"] = context]
  /\ \/ /\ Throw("ModelError")
        /\ UNCHANGED models
     \/ /\ Complete("models")
        /\ models' = VisitModels(context, ast)
  /\ UNCHANGED <<ast, visitorContext, context, sdkDefinitions, sdkContext,
                 printedModels, printedOperations, output>>
  /\ UNCHANGED <<inputVars, resolverVars>>

\* index.ts 42-49
ProcessDocuments ==
  /\ Start("definitions", {"context", "documents", "models"})
  /\ passed' = [passed EXCEPT !["definitions"] = context]
  /\ LET defs == getSdkDefinitions(context, documents, models)
     IN IF defs.error # "none"
        THEN /\ Throw(defs.error)
             /\ UNCHANGED <<sdkDefinitions, sdkContext>>
        ELSE /\ Complete("definitions")
             /\ sdkDefinitions' = defs
             /\ sdkContext' = BuildSdkContext(context, models, defs)
  /\ UNCHANGED <<ast, visitorContext, context, models, printedModels,
                 printedOperations, output>>
  /\ UNCHANGED <<inputVars, resolverVars>>

\* index.ts 52-53
PrintModels ==
  /\ Start("printModels", {"context", "models", "sdkDefinitions"})
  /\ \/ /\ Throw("PrintError")
        /\ UNCHANGED printedModels
     \/ /\ Complete("printModels")
        /\ printedModels' = printSdkModels(sdkContext)
  /\ UNCHANGED <<ast, visitorContext, context, models, sdkDefinitions,
                 sdkContext, passed, printedOperations, output>>
  /\ UNCHANGED <<inputVars, resolverVars>>

\* index.ts 56-57
PrintOperations ==
  /\ Start("printClasses", {"context", "models", "sdkDefinitions"})
  /\ \/ /\ Throw("PrintError")
        /\ UNCHANGED printedOperations
     \/ /\ Complete("printClasses")
        /\ printedOperations' = printSdkClasses(sdkContext)
  /\ UNCHANGED <<ast, visitorContext, context, models, sdkDefinitions,
                 sdkContext, passed, printedModels, output>>
  /\ UNCHANGED <<inputVars, resolverVars>>

\* index.ts 66-90
PrintApi ==
  /\ Start("assemble", {"config", "printedModels", "printedOperations"})
  /\ \/ /\ Throw("RequesterError")
        /\ UNCHANGED output
     \/ /\ Complete("assemble")
        /\ output' = PluginOutput(config, printedModels, printedOperations)
  /\ UNCHANGED <<ast, visitorContext, context, models, sdkDefinitions,
                 sdkContext, passed, printedModels, printedOperations>>
  /\ UNCHANGED <<inputVars, resolverVars>>

CatchResultAlt(e) == "none"

\* index.ts 91-94: the caught error is logged and thrown again
CatchResult(e) == e

Catch ==
  /\ pc = "catch"
  /\ pc' = "failed"
  /\ error' = CatchResult(thrown)
  /\ UNCHANGED <<inputVars, started, completed, received, thrown, dataVars,
                 resolverVars>>

Next ==
  \/ Validate
  \/ Parse
  \/ GatherContext
  \/ GenerateModels
  \/ ProcessDocuments
  \/ PrintModels
  \/ PrintOperations
  \/ PrintApi
  \/ Catch

Spec == Init /\ [][Next]_vars

\* ------------------------------------------ chain resolution, step by step
InitResolve ==
  /\ outputFile = <<"a", ".", "t", "s">>
  /\ config = [documentFile |-> [t |-> "string", v |-> "./_generated_documents"],
               documentMode |-> "documentNode"]
  /\ schema = "linear"
  /\ documents \in DocumentLists
  /\ pc = "definitions"
  /\ started = << >>
  /\ completed = {}
  /\ received = [s \in StageSet |-> {}]
  /\ thrown = "none"
  /\ error = "none"
  /\ ast = "linear"
  /\ visitorContext = VisitorContext("linear", << >>)
  /\ context = BuildContext(VisitorContext("linear", << >>))
  /\ models = LinearModels
  /\ sdkDefinitions = NoDefinitions
  /\ sdkContext = NoSdkContext
  /\ passed = NoPassed
  /\ printedModels = ""
  /\ printedOperations = ""
  /\ output = NoOutput
  /\ rpc = "assemble"
  /\ parents = << >>
  /\ names = << >>
  /\ args = << >>
  /\ children = << >>
  /\ rerror = "none"

\* Steps 1 and 2: classification and tree assembly
Assemble ==
  /\ rpc = "assemble"
  /\ parents' = AssembleTree(documents, models)
  /\ children' = ChildrenOf(AssembleTree(documents, models))
  /\ rpc' = "names"
  /\ UNCHANGED <<inputVars, runVars, dataVars, names, args, rerror>>

\* Step 3: name collision resolution; on a conflict the names resolved so
\* far stay for the error report
Disambiguate ==
  /\ rpc = "names"
  /\ LET nm == ResolveNames(documents, parents)
     IN /\ names' = nm.names
        /\ rerror' = nm.error
        /\ rpc' = IF nm.error = "none" THEN "elide" ELSE "failed"
  /\ UNCHANGED <<inputVars, runVars, dataVars, parents, children, args>>

\* Step 4: argument elision
ElideArgs ==
  /\ rpc = "elide"
  /\ args' = ElideArguments(documents, models, parents)
  /\ rpc' = "validate"
  /\ UNCHANGED <<inputVars, runVars, dataVars, parents, children, names,
                 rerror>>

\* Step 5: validation of the model references
ValidateRefs ==
  /\ rpc = "validate"
  /\ rerror' = ValidateReferences(documents, models)
  /\ rpc' = IF ValidateReferences(documents, models) = "none"
            THEN "done" ELSE "failed"
  /\ UNCHANGED <<inputVars, runVars, dataVars, parents, children, names, args>>

NextResolve ==
  \/ Assemble
  \/ Disambiguate
  \/ ElideArgs
  \/ ValidateRefs

SpecResolve == InitResolve /\ [][NextResolve]_vars

\* ------------------------------------------------------------------ claims
StartedSet == {started[i] : i \in 1..Len(started)}

ValidConfig ==
  /\ extname(outputFile) = DotTs
  /\ config.documentFile.t = "string"
  /\ config.documentFile.v # ""

\* C1: validate fails with an error if and only if the extension of the
\* output file is not ".ts" or documentFile is not a non-empty string; on
\* every other input it completes without error.
C1_ValidateFailsIffInvalid ==
  pc # "validate" =>
    /\ (pc = "rejected") <=> ~ValidConfig
    /\ pc = "rejected" => error # "none"
    /\ ValidConfig => pc # "rejected" /\ (started = << >> => error = "none")

C1_Witness ==
  /\ pc = "rejected"
  /\ extname(outputFile) = DotTs
  /\ config.documentFile = [t |-> "string", v |-> ""]

\* C2: a generation run is all-or-nothing: an output object is returned only
\* when every stage has completed, and a run in which a stage failed ends
\* with that one error and no output.
C2_AllOrNothing ==
  /\ output.returned => pc = "done" /\ completed = StageSet /\ error = "none"
  /\ pc = "done" => output.returned
  /\ pc = "catch" => ~output.returned /\ thrown # "none"
  /\ pc = "failed" => ~output.returned /\ error = thrown /\ error # "none"
  /\ thrown # "none" => pc \in {"catch", "failed"}

C2_Witness ==
  /\ pc = "failed"
  /\ error = "UnresolvedModelReference"
  /\ schema = "linear"
  /\ completed = {"parse", "context", "models"}

Producer(a) ==
  CASE a = "ast" -> "parse"
    [] a = "context" -> "context"
    [] a = "models" -> "models"
    [] a = "sdkDefinitions" -> "definitions"
    [] a = "printedModels" -> "printModels"
    [] a = "printedOperations" -> "printClasses"

HostInputs == {"schema", "config", "documents"}

\* C3: the stages of a run execute strictly forward and each at most once;
\* a stage starts only when every earlier stage has completed, and receives
\* only host inputs and outputs of stages that have completed.
C3_StagesForward ==
  /\ Len(started) <= Len(Stages)
  /\ \A i \in 1..Len(started) : started[i] = Stages[i]
  /\ \A i \in 1..Len(started) : \A k \in 1..(i - 1) : Stages[k] \in completed
  /\ completed \subseteq StartedSet
  /\ \A s \in StartedSet : \A a \in received[s] :
       \/ a \in HostInputs
       \/ /\ Producer(a) \in completed
          /\ StageIndex(Producer(a)) < StageIndex(s)
  /\ "models" \in StartedSet => "context" \in received["models"]
  /\ "definitions" \in StartedSet =>
       {"context", "documents", "models"} \subseteq received["definitions"]
  /\ \A s \in {"printModels", "printClasses"} \cap StartedSet :
       {"context", "models", "sdkDefinitions"} \subseteq received[s]

C3_Witness == pc = "done" /\ Len(started) = Len(Stages)

\* C4: a run whose output file extension is not ".ts" or whose documentFile
\* is not a non-empty string fails before plugin starts any stage.
C4_ConfigFatalBeforeCore ==
  ~ValidConfig =>
    /\ started = << >>
    /\ completed = {}
    /\ pc \in {"validate", "rejected"}
    /\ pc = "rejected" => error # "none"

C4_Witness ==
  /\ pc = "rejected"
  /\ extname(outputFile) # DotTs
  /\ config.documentFile.t = "string"
  /\ config.documentFile.v # ""
  /\ started = << >>

\* ancestors of node i under the parent map par (0, the root grouping, is
\* not a chain node)
RECURSIVE Reach(_, _, _)
Reach(par, S, fuel) ==
  IF fuel = 0 THEN S
  ELSE Reach(par, S \cup ({par[k] : k \in S} \ {0}), fuel - 1)

AncestorSet(par, i) == Reach(par, {par[i]} \ {0}, Len(par))

SuffixedNames(base) == {base \o ToString(k) : k \in 2..MaxSuffix}

\* C5: no two siblings under one parent share a generated name; on a clash
\* the later-declared sibling gets a suffixed name, no operation is dropped,
\* and ChainNameConflict is raised only when every name is taken.
C5_SiblingNamesDistinct ==
  /\ rpc \in {"elide", "validate", "done"} =>
       /\ Len(names) = Len(documents)
       /\ \A i, j \in 1..Len(names) :
            (i < j /\ parents[i] = parents[j]) => names[i] # names[j]
       /\ \A j \in 1..Len(names) :
            \/ names[j] = documents[j].name
            \/ /\ names[j] \in SuffixedNames(documents[j].name)
               /\ \E i \in 1..(j - 1) :
                    parents[i] = parents[j] /\ names[i] = documents[j].name
       /\ \A j \in 1..Len(names) :
            Cardinality({<<p, k>> \in (0..Len(names)) \X (1..Len(names)) :
                           k <= Len(children[p]) /\ children[p][k] = j}) = 1
  /\ (rpc = "failed" /\ rerror = "ChainNameConflict") =>
       LET j == Len(names) + 1
       IN /\ j <= Len(documents)
          /\ \A n \in {documents[j].name} \cup SuffixedNames(documents[j].name) :
               \E i \in 1..(j - 1) : parents[i] = parents[j] /\ names[i] = n

C5_Witness ==
  /\ rpc = "done"
  /\ \E i, j \in 1..Len(names) :
       /\ i < j
       /\ parents[i] = parents[j]
       /\ parents[j] # 0
       /\ documents[i].name = documents[j].name
       /\ names[j] # documents[j].name

SameNameAndType(v, j) ==
  \E f \in FieldsOf(models, documents[j].result) :
    f.name = v.name /\ f.type = v.type

\* C7: the arguments a caller must supply are the declared variables minus
\* exactly those found, with the same name and type, among the result
\* fields of a model on the ancestor chain; a root keeps all its variables.
C7_ArgumentElision ==
  rpc \in {"validate", "done"} =>
    \A i \in 1..Len(documents) :
      /\ args[i] = {v \in documents[i].vars :
                      ~\E a \in AncestorSet(parents, i) : SameNameAndType(v, a)}
      /\ parents[i] = 0 => args[i] = documents[i].vars
      /\ (\A j \in 1..Len(documents) :
            \A v \in documents[i].vars : ~SameNameAndType(v, j))
           => parents[i] = 0 /\ args[i] = documents[i].vars

C7_Witness ==
  /\ rpc = "done"
  /\ \E i \in 1..Len(documents) :
       /\ parents[i] # 0
       /\ args[i] # documents[i].vars
       /\ \E v \in args[i] :
            \E f \in FieldsOf(models, documents[parents[i]].result) :
              f.name = v.name /\ f.type # v.type

\* C9: the prepend list starts with the eslint comment, holds the ResultOf
\* import, and holds the DocumentNode import exactly when documentMode is
\* not the string mode; the content section has the same order in every
\* mode: document import, document export, requester type, models, classes.
C9_OutputShape ==
  output.returned =>
    /\ output.prepend[1] = EslintDisable
    /\ output.prepend[Len(output.prepend)] = ImportResultOf
    /\ (\E i \in 1..Len(output.prepend) : output.prepend[i] = ImportDocumentNode)
         <=> config.documentMode # "string"
    /\ Len(output.prepend) = IF config.documentMode = "string" THEN 2 ELSE 3
    /\ Len(output.content) >= 3
    /\ output.content[1] = ImportDocuments(config)
    /\ output.content[2] = ExportDocuments(config)
    /\ <<output.content[3]>> = printRequesterType(config)
    /\ SubSeq(output.content, 4, Len(output.content))
         = SelectSeq(<<printedModels, printedOperations>>, NonEmpty)

C9_Witness ==
  /\ output.returned
  /\ config.documentMode = "string"
  /\ Len(output.content) = 5

\* C10: the fragment list of the context handed to the later stages is
\* always empty, whatever the context visitor collected; the other entries
\* are passed through, and the sdk context adds only models and definitions.
C10_FragmentsEmpty ==
  /\ "context" \in completed =>
       /\ context.fragments = << >>
       /\ context.schema = visitorContext.schema
       /\ context.scalars = visitorContext.scalars
       /\ DOMAIN context = DOMAIN visitorContext
  /\ \A s \in {"models", "definitions"} \cap StartedSet :
       passed[s] = context /\ passed[s].fragments = << >>
  /\ "definitions" \in completed =>
       /\ sdkContext.fragments = << >>
       /\ \A k \in DOMAIN context : sdkContext[k] = context[k]
       /\ DOMAIN sdkContext = DOMAIN context \cup {"models", "sdkDefinitions"}
       /\ sdkContext.models = models
       /\ sdkContext.sdkDefinitions = sdkDefinitions

C10_Witness ==
  /\ "printClasses" \in completed
  /\ visitorContext.fragments # << >>

====
